---- MODULE Spec2Model ----
(***************************************************************************)
(* Model of routes.py: the Routes / LazyRoutes route registry.             *)
(*                                                                         *)
(* Strings are sequences of one-character strings.  The registry is the    *)
(* pair of class attributes Routes.routes (a list of url objects) and      *)
(* Routes.tracked (a set of unformatted route strings).  Every public      *)
(* method is one action; an exception leaves the partial effects the code  *)
(* has already made and is recorded in last.exc.                           *)
(***************************************************************************)
EXTENDS Integers, Sequences, FiniteSets, TLC

\* ------------------------------------------------------------------ bounds
MaxRouteLen == 2    \* longest unformatted route string passed to add
MaxMaps == 2        \* longest var_mappings list passed to add
MaxArgs == 1        \* longest single mapping (tuple of values)
MaxCalls == 2       \* add / add_list / add_view calls made after the import
MaxImportCalls == 1 \* lazy_routes calls made while routes.py is being imported

\* ------------------------------------------------------------- input sets
Alphabet == {"a", "{", "}"}
Values == {<<"a">>}
Instances == {"lazy_routes", "routes"}

SeqsUpTo(S, n) == UNION {[1..k -> S] : k \in 0..n}

RouteStrings == SeqsUpTo(Alphabet, MaxRouteLen) \ {<<>>}

\* one element of var_mappings: a tuple of values, a str, or a non-iterable
TupleMappings == {[kind |-> "iterable", vals |-> v] : v \in SeqsUpTo(Values, MaxArgs)}
StrMapping == [kind |-> "str", vals |-> <<>>]
NonIterMapping == [kind |-> "noniter", vals |-> <<>>]
MappingEntries == TupleMappings \cup {StrMapping, NonIterMapping}

\* var_mappings: None, or a list of entries
NoneMappings == [isNone |-> TRUE, items |-> <<>>]
ListMappings(items) == [isNone |-> FALSE, items |-> items]
VarMappings == {NoneMappings} \cup {ListMappings(m) : m \in SeqsUpTo(MappingEntries, MaxMaps)}

\* **kwargs: the two keys the code looks at
NoKwargs == [add_ending |-> "unset", django_url_name |-> "unset"]
NamedKwargs == [add_ending |-> "unset", django_url_name |-> "n"]
EndingKwargs(b) == [add_ending |-> b, django_url_name |-> "unset"]

\* one route dict of a route table: "pattern", optional "map", optional "kwargs"
RouteDict(pattern, has_map, items, kwargs_kind, kw) ==
    [pattern |-> pattern, has_map |-> has_map, map |-> items,
     kwargs_kind |-> kwargs_kind, kwargs |-> kw]

\* the routes argument of add_list: an iterable of route dicts, a str, or a non-iterable
Table(items) == [kind |-> "iterable", items |-> items]
StrTable == [kind |-> "str", items |-> <<>>]
NonIterTable == [kind |-> "noniter", items |-> <<>>]

MapA == [kind |-> "iterable", vals |-> << <<"a">> >>]
MapB == [kind |-> "iterable", vals |-> << <<"b">> >>]

TablePlain == Table(<< RouteDict(<<"a">>, FALSE, <<>>, "absent", NoKwargs) >>)
TableMapped ==
    Table(<< RouteDict(<<"{", "}">>, TRUE, <<MapA, MapB>>, "absent", NoKwargs),
             RouteDict(<<"a">>, FALSE, <<>>, "dict", NamedKwargs) >>)
TableBadKwargs ==
    Table(<< RouteDict(<<"b">>, FALSE, <<>>, "absent", NoKwargs),
             RouteDict(<<"a">>, FALSE, <<>>, "notdict", NoKwargs) >>)
TableBadMap ==
    Table(<< RouteDict(<<"{", "}">>, TRUE, <<MapA, StrMapping>>, "dict", EndingKwargs("False")) >>)
RouteTables == {TablePlain, TableMapped, TableBadKwargs, TableBadMap, StrTable, NonIterTable}

NoPrefix == [has |-> FALSE, val |-> <<>>]
Prefix(p) == [has |-> TRUE, val |-> p]
Prefixes == {NoPrefix, Prefix(<<"a">>)}

\* a view class: the attributes add_view and the auto-discovery look at
ViewClass(name, has_routes, table, prefix, ending) ==
    [name |-> name, has_routes |-> has_routes, routes |-> table,
     prefix |-> prefix, add_ending |-> ending]

ViewPlain == ViewClass(<<"V">>, TRUE, TablePlain, NoPrefix, "unset")
ViewNoRoutes == ViewClass(<<"W">>, FALSE, NonIterTable, NoPrefix, "unset")
ViewNoRoutesPrefixed == ViewClass(<<"W">>, FALSE, NonIterTable, Prefix(<<"a">>), "False")
ViewStrRoutes == ViewClass(<<"S">>, TRUE, StrTable, NoPrefix, "unset")
ViewPrefixed == ViewClass(<<"P">>, TRUE, TableMapped, Prefix(<<"a">>), "False")
Views == {ViewPlain, ViewNoRoutes, ViewNoRoutesPrefixed, ViewStrRoutes, ViewPrefixed}

\* ------------------------------------------------------ pure helpers
\* check_if_list without its isinstance(lst, str) test
check_if_list_no_str_check(lst) ==
    IF lst.kind = "noniter" THEN "TypeError" ELSE "none"

\* check_if_list: the exception it raises, "none" when it returns
check_if_list(lst) ==
    IF lst.kind = "str" THEN "TypeError"
    ELSE IF lst.kind = "noniter" THEN "TypeError"
    ELSE "none"

\* position of the '}' that closes the replacement field opened before j,
\* counting nested braces; Len(s) + 1 when there is none
RECURSIVE FieldEnd(_, _, _)
FieldEnd(s, j, depth) ==
    IF j > Len(s) THEN j
    ELSE IF s[j] = "{" THEN FieldEnd(s, j + 1, depth + 1)
    ELSE IF s[j] = "}" THEN (IF depth = 1 THEN j ELSE FieldEnd(s, j + 1, depth - 1))
    ELSE FieldEnd(s, j + 1, depth)

\* str.format(*args) scanning from position i; auto is the next automatic
\* field index, out the text produced so far
RECURSIVE FormatFrom(_, _, _, _, _)
FormatFrom(s, args, i, auto, out) ==
    IF i > Len(s) THEN [exc |-> "none", val |-> out]
    ELSE IF s[i] \notin {"{", "}"} THEN FormatFrom(s, args, i + 1, auto, Append(out, s[i]))
    ELSE IF i + 1 <= Len(s) /\ s[i + 1] = s[i]
        THEN FormatFrom(s, args, i + 2, auto, Append(out, s[i]))
    ELSE IF s[i] = "}" THEN [exc |-> "ValueError", val |-> <<>>]
    ELSE IF i + 1 > Len(s) THEN [exc |-> "ValueError", val |-> <<>>]
    ELSE LET j == FieldEnd(s, i + 1, 1)
             name == SubSeq(s, i + 1, j - 1)
         IN  IF j > Len(s) THEN [exc |-> "ValueError", val |-> <<>>]
             ELSE IF \E k \in 1..Len(name) : name[k] = "{"
                 THEN [exc |-> "ValueError", val |-> <<>>]
             ELSE IF name = <<>>
                 THEN IF auto + 1 > Len(args)
                      THEN [exc |-> "IndexError", val |-> <<>>]
                      ELSE FormatFrom(s, args, j + 1, auto + 1, out \o args[auto + 1])
             ELSE [exc |-> "KeyError", val |-> <<>>]

\* pattern.format(*pmap)
Format(pattern, pmap) == FormatFrom(pattern, pmap, 1, 0, <<>>)

\* '^{}{}'.format(formatted, '/$' if ending else '')
UrlRoute(formatted, ending) ==
    <<"^">> \o formatted \o (IF ending THEN <<"/", "$">> ELSE <<>>)

\* url(url_route, func, kwargs[, name=kwargs['django_url_name']])
url(url_route, func, opts) ==
    [regex |-> url_route, callback |-> func, name |-> opts.django_url_name]

\* ------------------------------------------------ registry operations
\* A registry value st is [routes, tracked, exc, acc]: the list, the set,
\* the exception in flight ("none" when there is none) and the route
\* strings that passed _check_if_format_exists during the call.

Registry(r, t) == [routes |-> r, tracked |-> t, exc |-> "none", acc |-> <<>>]

\* F applied to the value of v: the statements of a method run on the
\* registry their predecessors left
Then(v, F(_)) == CHOOSE x \in {F(w) : w \in {v}} : TRUE

\* _check_if_format_exists without tracked.add(route)
check_if_format_exists_no_track(st, route) ==
    Then(st, LAMBDA s :
        IF route \in s.tracked
        THEN [s EXCEPT !.exc = "ValueError"]
        ELSE [s EXCEPT !.acc = Append(@, route)])

\* _check_if_format_exists
check_if_format_exists(st, route) ==
    Then(st, LAMBDA s :
        IF route \in s.tracked
        THEN [s EXCEPT !.exc = "ValueError"]
        ELSE [s EXCEPT !.tracked = @ \cup {route}, !.acc = Append(@, route)])

add_url(st, pattern, pmap, ending, opts, func) ==
    Then(Format(pattern, pmap), LAMBDA f :
        IF f.exc # "none" THEN [st EXCEPT !.exc = f.exc]
        ELSE [st EXCEPT !.routes = Append(@, url(UrlRoute(f.val, ending), func, opts))])

\* for mapr in var_mappings: check_if_list(mapr); add_url(...)
RECURSIVE AddMappings(_, _, _, _, _, _, _)
AddMappings(st, route, func, items, i, ending, opts) ==
    Then(st, LAMBDA s :
        IF i > Len(items) \/ s.exc # "none" THEN s
        ELSE IF check_if_list(items[i]) # "none"
            THEN [s EXCEPT !.exc = check_if_list(items[i])]
        ELSE AddMappings(add_url(s, route, items[i].vals, ending, opts, func),
                         route, func, items, i + 1, ending, opts))

add(st, route, func, var_mappings, add_ending, kwargs) ==
    Then(check_if_format_exists(st, route), LAMBDA s1 :
        IF s1.exc # "none" THEN s1
        ELSE IF ~var_mappings.isNone /\ Len(var_mappings.items) > 0
            THEN AddMappings(s1, route, func, var_mappings.items, 1, add_ending, kwargs)
        ELSE add_url(s1, route, <<>>, add_ending, kwargs, func))

\* kwargs.copy() updated with the items of route["kwargs"]
MergeKwargs(kwargs, over) ==
    [add_ending |-> IF over.add_ending # "unset" THEN over.add_ending ELSE kwargs.add_ending,
     django_url_name |-> IF over.django_url_name # "unset" THEN over.django_url_name
                         ELSE kwargs.django_url_name]

\* the add_ending parameter of add when it is called with **route_kwargs:
\* the keyword if present, else the default True
EndingOf(route_kwargs) ==
    IF route_kwargs.add_ending = "unset" THEN TRUE ELSE route_kwargs.add_ending = "True"

\* what is left in add's **kwargs once add_ending is bound to the parameter
RestOf(route_kwargs) == [route_kwargs EXCEPT !.add_ending = "unset"]

\* route["pattern"] if prefix is None else '{}/{}'.format(prefix, route["pattern"])
Prefixed(prefix, pattern) ==
    IF prefix.has THEN prefix.val \o <<"/">> \o pattern ELSE pattern

\* route_kwargs of one route dict
RouteKwargs(route, kwargs) ==
    IF route.kwargs_kind = "dict" THEN MergeKwargs(kwargs, route.kwargs) ELSE kwargs

\* for route in routes: ... self.add(...)
RECURSIVE AddRoutes(_, _, _, _, _, _)
AddRoutes(st, items, i, func, prefix, kwargs) ==
    Then(st, LAMBDA s :
        IF i > Len(items) \/ s.exc # "none" THEN s
        ELSE IF items[i].kwargs_kind = "notdict" THEN [s EXCEPT !.exc = "TypeError"]
        ELSE AddRoutes(add(s, Prefixed(prefix, items[i].pattern), func,
                           ListMappings(IF items[i].has_map THEN items[i].map ELSE <<>>),
                           EndingOf(RouteKwargs(items[i], kwargs)),
                           RestOf(RouteKwargs(items[i], kwargs))),
                       items, i + 1, func, prefix, kwargs))

add_list(st, table, func, prefix, kwargs) ==
    IF check_if_list(table) # "none" THEN [st EXCEPT !.exc = check_if_list(table)]
    ELSE AddRoutes(st, table.items, 1, func, prefix, kwargs)

\* view.as_view()
as_view(view) == <<"as_view">> \o view.name

\* kwargs after: if hasattr(view, 'add_ending') and 'add_ending' not in kwargs
ViewKwargs(view, kwargs) ==
    IF view.add_ending # "unset" /\ kwargs.add_ending = "unset"
    THEN [kwargs EXCEPT !.add_ending = view.add_ending] ELSE kwargs

\* add_view without its hasattr(view, 'routes') test
add_view_no_check(st, view, kwargs) ==
    add_list(st, IF view.has_routes THEN view.routes ELSE Table(<<>>),
             as_view(view), view.prefix, ViewKwargs(view, kwargs))

add_view(st, view, kwargs) ==
    IF ~view.has_routes THEN [st EXCEPT !.exc = "AttributeError"]
    ELSE add_list(st, view.routes, as_view(view), view.prefix, ViewKwargs(view, kwargs))

\* ------------------------------------------------ auto-discovery
\* What the import machinery finds is input: an app is its dotted name and
\* the modules pkgutil.walk_packages yields for it; a package module carries
\* the (non-package) modules found inside it.

ClassMember(kname, init_exc, is_view, register_route, view) ==
    [kname |-> kname, init_exc |-> init_exc, is_view |-> is_view,
     register_route |-> register_route, view |-> view]
Module(mname, ispkg, classes, funcs, subs) ==
    [mname |-> mname, ispkg |-> ispkg, classes |-> classes, funcs |-> funcs, subs |-> subs]
App(name, modules) == [name |-> name, modules |-> modules]

ViewsName == <<"v", "i", "e", "w", "s">>
DjangoName == <<"d", "j", "a", "n", "g", "o">>
\* "((?:[^/]/*)*)"
ArgsTail == <<"(", "(", "?", ":", "[", "^", "/", "]", "/", "*", ")", "*", ")">>

Upper == <<"A", "B", "C", "D", "E", "F", "G", "H", "I", "J", "K", "L", "M",
           "N", "O", "P", "Q", "R", "S", "T", "U", "V", "W", "X", "Y", "Z">>
LowerCase == <<"a", "b", "c", "d", "e", "f", "g", "h", "i", "j", "k", "l", "m",
               "n", "o", "p", "q", "r", "s", "t", "u", "v", "w", "x", "y", "z">>

\* str.lower()
Lower(s) ==
    [i \in 1..Len(s) |->
        IF \E k \in 1..26 : Upper[k] = s[i]
        THEN LowerCase[CHOOSE k \in 1..26 : Upper[k] = s[i]] ELSE s[i]]

\* str.replace('//', '/'): non-overlapping, left to right
RECURSIVE ReplaceSlashes(_, _)
ReplaceSlashes(s, i) ==
    IF i > Len(s) THEN <<>>
    ELSE IF i + 1 <= Len(s) /\ s[i] = "/" /\ s[i + 1] = "/"
        THEN <<"/">> \o ReplaceSlashes(s, i + 2)
    ELSE <<s[i]>> \o ReplaceSlashes(s, i + 1)

\* app.split('.')[0]
RECURSIVE FirstComponent(_, _)
FirstComponent(s, i) ==
    IF i > Len(s) \/ s[i] = "." THEN SubSeq(s, 1, i - 1) ELSE FirstComponent(s, i + 1)

\* the route add_func builds
FuncRoute(app, with_app, mod, funcName) ==
    IF with_app
    THEN Lower(app) \o <<"/">> \o Lower(mod) \o <<"/">> \o Lower(funcName) \o <<"/">> \o ArgsTail
    ELSE Lower(mod) \o <<"/">> \o Lower(funcName) \o <<"/">> \o ArgsTail

add_func(st, app, with_app, mod, funcName, func) ==
    add(st, ReplaceSlashes(FuncRoute(app, with_app, mod, funcName), 1), func,
        NoneMappings, FALSE, NoKwargs)

\* the statements of the try block of load_views after inst = klass[1]()
RegisterClass(st, app, with_app, name_mod, klass) ==
    Then(IF klass.register_route # "False"
         THEN add_func(st, app, with_app, name_mod, klass.kname, as_view(klass.view))
         ELSE st,
         LAMBDA s1 :
            IF s1.exc # "none" THEN s1
            ELSE IF klass.view.has_routes THEN add_view(s1, klass.view, NoKwargs)
            ELSE s1)

\* the body of the try block of load_views for one class
LoadClass(st, app, with_app, name_mod, klass) ==
    IF klass.init_exc # "none" THEN [st EXCEPT !.exc = klass.init_exc]
    ELSE IF ~klass.is_view THEN st
    ELSE RegisterClass(st, app, with_app, name_mod, klass)

\* try: ... except TypeError as e: ...
TryLoadClass(st, app, with_app, name_mod, klass) ==
    Then(LoadClass(st, app, with_app, name_mod, klass), LAMBDA s1 :
        IF s1.exc = "TypeError" THEN [s1 EXCEPT !.exc = "none"]
        ELSE IF s1.exc = "TypeErrorNotSubscriptable" THEN [s1 EXCEPT !.exc = "ValueError"]
        ELSE s1)

RECURSIVE LoadClasses(_, _, _, _, _, _)
LoadClasses(st, app, with_app, name_mod, classes, i) ==
    Then(st, LAMBDA s :
        IF i > Len(classes) \/ s.exc # "none" THEN s
        ELSE LoadClasses(TryLoadClass(s, app, with_app, name_mod, classes[i]),
                         app, with_app, name_mod, classes, i + 1))

RECURSIVE LoadFuncs(_, _, _, _, _, _)
LoadFuncs(st, app, with_app, name_mod, funcs, i) ==
    Then(st, LAMBDA s :
        IF i > Len(funcs) \/ s.exc # "none" THEN s
        ELSE LoadFuncs(add_func(s, app, with_app, name_mod, funcs[i], <<"func">> \o funcs[i]),
                       app, with_app, name_mod, funcs, i + 1))

\* name_mod of load_views
NameMod(mod_name, parent_mod_name) ==
    IF parent_mod_name # <<>> THEN parent_mod_name \o <<"/">> \o mod_name ELSE mod_name

load_views(st, app, with_app, register_funcs, mod, parent_mod_name) ==
    Then(LoadClasses(st, app, with_app, NameMod(mod.mname, parent_mod_name), mod.classes, 1),
         LAMBDA s1 :
            IF s1.exc = "none" /\ mod.mname = ViewsName /\ register_funcs
            THEN LoadFuncs(s1, app, with_app, NameMod(mod.mname, parent_mod_name),
                           mod.funcs, 1)
            ELSE s1)

\* load_module(mod, pkg) for a package whose modules are all plain modules
RECURSIVE load_module(_, _, _, _, _, _)
load_module(st, app, with_app, register_funcs, pkg, i) ==
    Then(st, LAMBDA s :
        IF i > Len(pkg.subs) \/ s.exc # "none" THEN s
        ELSE load_module(load_views(s, app, with_app, register_funcs, pkg.subs[i],
                                    <<"/">> \o pkg.mname),
                         app, with_app, register_funcs, pkg, i + 1))

RECURSIVE LoadModules(_, _, _, _, _, _)
LoadModules(st, app, with_app, register_funcs, modules, i) ==
    Then(st, LAMBDA s :
        IF i > Len(modules) \/ s.exc # "none" THEN s
        ELSE LoadModules(IF modules[i].ispkg
                         THEN load_module(s, app, with_app, register_funcs, modules[i], 1)
                         ELSE load_views(s, app, with_app, register_funcs, modules[i], <<>>),
                         app, with_app, register_funcs, modules, i + 1))

\* for app in settings.INSTALLED_APPS: ...
RECURSIVE register_installed_apps_views(_, _, _, _, _)
register_installed_apps_views(st, apps, with_app, register_funcs, i) ==
    Then(st, LAMBDA s :
        IF i > Len(apps) \/ s.exc # "none" THEN s
        ELSE register_installed_apps_views(
                 IF FirstComponent(apps[i].name, 1) # DjangoName
                 THEN LoadModules(s, apps[i].name, with_app, register_funcs,
                                  apps[i].modules, 1)
                 ELSE s,
                 apps, with_app, register_funcs, i + 1))

\* Routes.__init__ after the import of the project's urls module
routes_init(st, settings) ==
    IF settings.ROUTE_AUTO_CREATE = "unset" THEN st
    ELSE IF settings.ROUTE_AUTO_CREATE = "app_module_view"
        THEN register_installed_apps_views(st, settings.INSTALLED_APPS, TRUE,
                                           settings.REGISTER_VIEWS_PY_FUNCS, 1)
    ELSE IF settings.ROUTE_AUTO_CREATE = "module_view"
        THEN register_installed_apps_views(st, settings.INSTALLED_APPS, FALSE,
                                           settings.REGISTER_VIEWS_PY_FUNCS, 1)
    \* the message reads settings.route_auto_create, an attribute that the
    \* settings object has only if a setting of that lower-case name exists
    ELSE IF settings.has_route_auto_create THEN [st EXCEPT !.exc = "ValueError"]
    ELSE [st EXCEPT !.exc = "AttributeError"]

\* LazyRoutes.__init__: pass
lazy_routes_init(st) == st

\* ------------------------------------------------ environments explored
NonViewClass == ClassMember(<<"C">>, "TypeError", FALSE, "unset", ViewNoRoutes)
BrokenClass == ClassMember(<<"B">>, "TypeErrorNotSubscriptable", FALSE, "unset", ViewNoRoutes)
PlainViewClass == ClassMember(<<"V">>, "none", TRUE, "unset", ViewPlain)
HiddenViewClass == ClassMember(<<"W">>, "none", TRUE, "False", ViewNoRoutes)
StrViewClass == ClassMember(<<"S">>, "none", TRUE, "True", ViewStrRoutes)

AppOne ==
    App(<<"p", ".", "A">>,
        << Module(<<"m">>, FALSE, <<NonViewClass, StrViewClass, PlainViewClass>>, <<>>, <<>>),
           Module(ViewsName, FALSE, <<>>, << <<"f">> >>, <<>>),
           Module(<<"k">>, TRUE, <<>>, <<>>,
                  << Module(<<"m">>, FALSE, <<HiddenViewClass>>, <<>>, <<>>) >>) >>)
AppBroken ==
    App(<<"r">>, << Module(<<"m">>, FALSE, <<BrokenClass>>, <<>>, <<>>) >>)
DjangoApp ==
    App(DjangoName \o <<".", "c">>,
        << Module(<<"m">>, FALSE, <<PlainViewClass>>, <<>>, <<>>) >>)

AppLists == {<<DjangoApp, AppOne>>, <<AppBroken>>}

\* the settings read by Routes.__init__; the fields a branch does not read
\* are left at one value
NoSettings ==
    [ROUTE_AUTO_CREATE |-> "unset", has_route_auto_create |-> FALSE,
     REGISTER_VIEWS_PY_FUNCS |-> FALSE, INSTALLED_APPS |-> <<>>]
Settings ==
    {NoSettings}
    \cup {[NoSettings EXCEPT !.ROUTE_AUTO_CREATE = "bogus", !.has_route_auto_create = b] :
            b \in BOOLEAN}
    \cup {[NoSettings EXCEPT !.ROUTE_AUTO_CREATE = o, !.REGISTER_VIEWS_PY_FUNCS = f,
                             !.INSTALLED_APPS = l] :
            o \in {"app_module_view", "module_view"}, f \in BOOLEAN, l \in AppLists}

\* ------------------------------------------------ state
VARIABLES
    routes,       \* holder -> the list bound to its attribute "routes"
    tracked,      \* holder -> the set bound to its attribute "tracked"
    constructed,  \* the module-level instances that exist
    pc,           \* "import" while routes.py is being imported, then "ready" or "failed"
    calls,        \* number of add / add_list / add_view calls made so far
    accepted,     \* every route string that passed _check_if_format_exists, in
                  \* order, with the instance it was added through
    last          \* the last call: its arguments, its outcome, the registry before it

vars == <<routes, tracked, constructed, pc, calls, accepted, last>>

Holders == {"Routes"} \cup Instances

\* a registry of its own for every instance
HolderPerInstance(self) == self

\* self.routes and self.tracked are the attributes of the class Routes:
\* neither LazyRoutes nor any instance rebinds them
Holder(self) == "Routes"

\* Routes.urls: patterns(r'', *self.routes)
urls(self) == routes[Holder(self)]

NoCall ==
    [op |-> "none", self |-> "none", route |-> <<>>, var_mappings |-> NoneMappings,
     add_ending |-> TRUE, kwargs |-> NoKwargs, table |-> NonIterTable, prefix |-> NoPrefix,
     view |-> ViewNoRoutes, settings |-> NoSettings, exc |-> "none",
     pre_routes |-> [h \in Holders |-> <<>>], pre_tracked |-> [h \in Holders |-> {}]]

Call(op, self) ==
    [NoCall EXCEPT !.op = op, !.self = self, !.pre_routes = routes, !.pre_tracked = tracked]

\* the registry self sees, and the state after a call that left it as r
Before(self) == Registry(routes[Holder(self)], tracked[Holder(self)])

Commit(self, r) ==
    /\ routes' = [routes EXCEPT ![Holder(self)] = r.routes]
    /\ tracked' = [tracked EXCEPT ![Holder(self)] = r.tracked]
    /\ accepted' = accepted \o [k \in 1..Len(r.acc) |-> [route |-> r.acc[k], by |-> self]]

\* routes.py is about to be imported
InitImport ==
    /\ routes = [h \in Holders |-> <<>>]
    /\ tracked = [h \in Holders |-> {}]
    /\ constructed = {}
    /\ pc = "import"
    /\ calls = 0
    /\ accepted = <<>>
    /\ last = NoCall

\* routes.py has been imported, ROUTE_AUTO_CREATE not set, nothing registered yet
Init ==
    /\ routes = [h \in Holders |-> <<>>]
    /\ tracked = [h \in Holders |-> {}]
    /\ constructed = Instances
    /\ pc = "ready"
    /\ calls = 0
    /\ accepted = <<>>
    /\ last = NoCall

\* LazyRoutes(): the module-level lazy_routes = LazyRoutes() during the
\* import, any other construction later
LazyRoutesInit ==
    /\ pc # "failed"
    /\ LET r == lazy_routes_init(Before("lazy_routes"))
       IN  /\ Commit("lazy_routes", r)
           /\ last' = [Call("LazyRoutes", "lazy_routes") EXCEPT !.exc = r.exc]
    /\ constructed' = constructed \cup {"lazy_routes"}
    /\ UNCHANGED <<pc, calls>>

\* routes = Routes()
RoutesInit ==
    /\ pc = "import"
    /\ "lazy_routes" \in constructed
    /\ \E settings \in Settings :
        LET r == routes_init(Before("routes"), settings)
        IN  /\ Commit("routes", r)
            /\ last' = [Call("Routes", "routes") EXCEPT !.settings = settings, !.exc = r.exc]
            /\ pc' = IF r.exc = "none" THEN "ready" ELSE "failed"
            /\ constructed' = IF r.exc = "none" THEN constructed \cup {"routes"}
                              ELSE constructed
    /\ UNCHANGED calls

DoAdd(self, route, var_mappings, add_ending, kwargs) ==
    /\ self \in constructed
    /\ LET r == add(Before(self), route, "func", var_mappings, add_ending, kwargs)
       IN  /\ Commit(self, r)
           /\ last' = [Call("add", self) EXCEPT !.route = route,
                          !.var_mappings = var_mappings, !.add_ending = add_ending,
                          !.kwargs = kwargs, !.exc = r.exc]
    /\ calls' = calls + 1
    /\ UNCHANGED <<constructed, pc>>

DoAddList(self, table, prefix, kwargs) ==
    /\ self \in constructed
    /\ LET r == add_list(Before(self), table, "func", prefix, kwargs)
       IN  /\ Commit(self, r)
           /\ last' = [Call("add_list", self) EXCEPT !.table = table,
                          !.prefix = prefix, !.kwargs = kwargs, !.exc = r.exc]
    /\ calls' = calls + 1
    /\ UNCHANGED <<constructed, pc>>

DoAddView(self, view, kwargs) ==
    /\ self \in constructed
    /\ LET r == add_view(Before(self), view, kwargs)
       IN  /\ Commit(self, r)
           /\ last' = [Call("add_view", self) EXCEPT !.view = view,
                          !.kwargs = kwargs, !.exc = r.exc]
    /\ calls' = calls + 1
    /\ UNCHANGED <<constructed, pc>>

CanCall ==
    /\ pc = "ready"
    /\ calls < MaxCalls

Add ==
    /\ CanCall
    /\ \E self \in Instances, route \in RouteStrings, var_mappings \in VarMappings,
          add_ending \in BOOLEAN :
        DoAdd(self, route, var_mappings, add_ending, NoKwargs)

AddList ==
    /\ CanCall
    /\ \E self \in Instances, table \in RouteTables, prefix \in Prefixes :
        DoAddList(self, table, prefix, NoKwargs)

AddView ==
    /\ CanCall
    /\ \E self \in Instances, view \in Views, kwargs \in {NoKwargs, EndingKwargs("True")} :
        DoAddView(self, view, kwargs)

\* a view module imported while Routes() runs registers through lazy_routes
CanCallInImport ==
    /\ pc = "import"
    /\ calls < MaxImportCalls

ImportAdd ==
    /\ CanCallInImport
    /\ \E route \in RouteStrings, var_mappings \in VarMappings, add_ending \in BOOLEAN :
        DoAdd("lazy_routes", route, var_mappings, add_ending, NoKwargs)

ImportAddView ==
    /\ CanCallInImport
    /\ \E view \in Views :
        DoAddView("lazy_routes", view, NoKwargs)

Next == LazyRoutesInit \/ Add \/ AddList \/ AddView

Spec == Init /\ [][Next]_vars

NextImport == LazyRoutesInit \/ RoutesInit \/ ImportAdd \/ ImportAddView

SpecImport == InitImport /\ [][NextImport]_vars

\* ------------------------------------------------ properties
IsPrefix(p, q) == Len(p) <= Len(q) /\ SubSeq(q, 1, Len(p)) = p

IsCall == last.op \in {"add", "add_list", "add_view"}

RegistryUnchanged == routes = last.pre_routes /\ tracked = last.pre_tracked

Malformed(entry) == entry.kind \in {"str", "noniter"}

\* the list and the set the caller of the last call saw before it
PreRoutes == last.pre_routes[Holder(last.self)]
PreTracked == last.pre_tracked[Holder(last.self)]

\* C1: a route string passes the duplicate check at most once over the whole
\* run, and an add whose route string is already tracked raises ValueError,
\* appends nothing and leaves the tracked set as it was.
C1_DuplicateRejected ==
    /\ \A i, j \in 1..Len(accepted) : accepted[i].route = accepted[j].route => i = j
    /\ (last.op = "add" /\ last.route \in PreTracked)
         => (last.exc = "ValueError" /\ RegistryUnchanged)

\* a rejected duplicate add on a registry that already holds an entry
C1_Witness ==
    /\ last.op = "add"
    /\ last.route \in PreTracked
    /\ last.exc = "ValueError"
    /\ Len(PreRoutes) > 0

\* C2: no two entries of the routes list have the same formatted pattern.
C2_PatternsUnique ==
    \A h \in Holders : \A i, j \in 1..Len(routes[h]) :
        routes[h][i].regex = routes[h][j].regex => i = j

\* the entries the claim expects a successful add to append
C3_Expected ==
    IF ~last.var_mappings.isNone /\ Len(last.var_mappings.items) > 0
    THEN [i \in 1..Len(last.var_mappings.items) |->
            url(UrlRoute(Format(last.route, last.var_mappings.items[i].vals).val,
                         last.add_ending), "func", last.kwargs)]
    ELSE << url(UrlRoute(last.route, last.add_ending), "func", last.kwargs) >>

\* C3: a successful add with n >= 1 mappings appends the n formatted patterns
\* in order; with var_mappings None or empty it appends the one pattern made
\* of the route left as is; the entries before it stay in place.
C3_Expansion ==
    (last.op = "add" /\ last.exc = "none")
        => routes[Holder(last.self)] = PreRoutes \o C3_Expected

\* C4 as stated: add raises TypeError whenever some entry of a non-empty
\* var_mappings is a string or not iterable; add_list raises TypeError, and
\* registers nothing, when its routes argument is a string or not iterable.
C4_Original ==
    /\ (last.op = "add" /\ ~last.var_mappings.isNone
        /\ \E k \in 1..Len(last.var_mappings.items) : Malformed(last.var_mappings.items[k]))
         => last.exc = "TypeError"
    /\ (last.op = "add_list" /\ Malformed(last.table))
         => (last.exc = "TypeError" /\ RegistryUnchanged)

\* the first malformed entry of the last add's var_mappings is reached: the
\* route is new and every entry before it formats into the route
C4_Reached(k) ==
    /\ last.route \notin PreTracked
    /\ Malformed(last.var_mappings.items[k])
    /\ \A j \in 1..(k - 1) :
        /\ ~Malformed(last.var_mappings.items[j])
        /\ Format(last.route, last.var_mappings.items[j].vals).exc = "none"

\* C4 amended: add raises TypeError when it reaches a malformed entry, having
\* tracked the route and appended one entry per mapping before it; add_list
\* raises TypeError, and registers nothing, when its routes argument is a
\* string or not iterable.
C4_Amended ==
    /\ (last.op = "add" /\ ~last.var_mappings.isNone)
         => \A k \in 1..Len(last.var_mappings.items) :
                C4_Reached(k)
                  => /\ last.exc = "TypeError"
                     /\ Len(routes[Holder(last.self)]) = Len(PreRoutes) + k - 1
                     /\ IsPrefix(PreRoutes, routes[Holder(last.self)])
                     /\ tracked[Holder(last.self)] = PreTracked \cup {last.route}
    /\ (last.op = "add_list" /\ Malformed(last.table))
         => (last.exc = "TypeError" /\ RegistryUnchanged)

\* an add that appended the entry of a valid mapping and then met a string
C4_Witness ==
    /\ last.op = "add"
    /\ ~last.var_mappings.isNone
    /\ Len(last.var_mappings.items) = 2
    /\ C4_Reached(2)
    /\ last.var_mappings.items[2].kind = "str"
    /\ last.exc = "TypeError"
    /\ Len(routes[Holder(last.self)]) = Len(PreRoutes) + 1

\* C5: every instance sees the one registry: the urls of all instances are
\* the same list, it only grows at the end, a route string tracked through
\* any instance is rejected with ValueError through every instance, and
\* constructing a LazyRoutes changes nothing.
C5_SharedRegistry ==
    /\ \A i, j \in Instances : urls(i) = urls(j)
    /\ IsCall => \A i \in Instances : IsPrefix(last.pre_routes[Holder(i)], urls(i))
    /\ (last.op = "add" /\ \E i \in Instances : last.route \in last.pre_tracked[Holder(i)])
         => last.exc = "ValueError"
    /\ last.op = "LazyRoutes" => (last.exc = "none" /\ RegistryUnchanged)

\* a route added through lazy_routes is in the urls of routes, and adding its
\* route string through routes is rejected
C5_Witness ==
    /\ last.op = "add"
    /\ last.self = "routes"
    /\ last.exc = "ValueError"
    /\ Len(accepted) = 1
    /\ accepted[1].by = "lazy_routes"
    /\ accepted[1].route = last.route
    /\ Len(urls("routes")) > 0

\* C6: add_view on a view without a routes attribute raises AttributeError
\* and leaves the routes list and the tracked set as they were.
C6_MissingRoutes ==
    (last.op = "add_view" /\ ~last.view.has_routes)
        => (last.exc = "AttributeError" /\ RegistryUnchanged)

\* add_view of a view without routes on a registry that holds entries
C6_Witness ==
    /\ last.op = "add_view"
    /\ ~last.view.has_routes
    /\ last.exc = "AttributeError"
    /\ Len(PreRoutes) > 0
    /\ PreTracked # {}

\* C7: Routes() with ROUTE_AUTO_CREATE set to an invalid option raises
\* ValueError and registers nothing; with the setting absent it raises
\* nothing and registers nothing.
C7_InvalidOption ==
    /\ (last.op = "Routes" /\ last.settings.ROUTE_AUTO_CREATE = "bogus")
         => (last.exc = "ValueError" /\ RegistryUnchanged)
    /\ (last.op = "Routes" /\ last.settings.ROUTE_AUTO_CREATE = "unset")
         => (last.exc = "none" /\ RegistryUnchanged)

====
